---- MODULE Spec2Model ----
(***************************************************************************)
(* Model of src/animate.py: StabilityAnimationGenerator._parse_script and  *)
(* StabilityAnimationGenerator.create_animation with the calls it makes    *)
(* (generate_scene_image, check_api_status, check_components_status, the   *)
(* moviepy clip constructors and the renderer).                            *)
(*                                                                         *)
(* Text is a sequence of one-character strings, so that str.strip,         *)
(* str.split, str.startswith and slicing are computed on characters.       *)
(*                                                                         *)
(* Line 90 uses the name base64, which no import of lines 1-7 binds by     *)
(* name; it resolves only if the star import of line 5 happens to bind it. *)
(* With moviepy.editor as published it does not, and line 90 raises        *)
(* NameError for every scene. base64_bound keeps both environments, so     *)
(* that the code after line 90 (clip construction, render, cleanup) is     *)
(* modelled as well.                                                       *)
(***************************************************************************)
EXTENDS Integers, Sequences, FiniteSets, TLC

\* ------------------------------------------------------------------ bounds
\* longest script, in lines, handed to _parse_script on its own
MaxLines == 4
\* longest script, in lines, handed to create_animation
MaxScriptLines == 3
\* largest whole-second value of time.time() the model lets the clock reach
MaxClock == 1
\* most actions of the scene a clip is built for on its own
MaxActions == 4

\* ------------------------------------------------------------ text helpers
NL == "\n"
SP == " "

\* characters str.strip() removes (the whitespace of the model's alphabet)
Whitespace == {SP, NL}

\* str.lstrip(): drop leading whitespace
RECURSIVE LStrip(_)
LStrip(s) ==
    IF s = <<>> THEN s
    ELSE IF Head(s) \in Whitespace THEN LStrip(Tail(s)) ELSE s

\* str.rstrip(): drop trailing whitespace
RECURSIVE RStrip(_)
RStrip(s) ==
    IF s = <<>> THEN s
    ELSE IF s[Len(s)] \in Whitespace THEN RStrip(SubSeq(s, 1, Len(s) - 1)) ELSE s

\* str.strip()
Strip(s) == RStrip(LStrip(s))

\* str.startswith(prefix)
StartsWith(s, prefix) ==
    /\ Len(s) >= Len(prefix)
    /\ SubSeq(s, 1, Len(prefix)) = prefix

\* s[n:]
SliceFrom(s, n) == SubSeq(s, n + 1, Len(s))

\* str.split('\n'): always at least one (possibly empty) piece
RECURSIVE SplitLines(_)
SplitLines(s) ==
    IF \A i \in 1..Len(s) : s[i] # NL THEN <<s>>
    ELSE LET k == CHOOSE i \in 1..Len(s) :
                      /\ s[i] = NL
                      /\ \A j \in 1..(i - 1) : s[j] # NL
         IN  <<SubSeq(s, 1, k - 1)>> \o SplitLines(SubSeq(s, k + 1, Len(s)))

\* the literals of _parse_script
SCENE_MARK == <<"S", "C", "E", "N", "E", ":">>
CHARACTER_MARK == <<"C", "H", "A", "R", "A", "C", "T", "E", "R", ":">>
HASH_MARK == <<"#">>
SLASHES_MARK == <<"/", "/">>

\* IsComment that knows the '#' marker only
IsCommentHashOnly(line) == StartsWith(line, HASH_MARK)

\* line.startswith(('#', '//'))
IsComment(line) == StartsWith(line, HASH_MARK) \/ StartsWith(line, SLASHES_MARK)

\* ------------------------------------------------------------------ inputs
\* the lines scripts are made of: every rule of the scanner, with and without
\* surrounding blanks, with and without a remainder, and near misses
ParseLineSet ==
    { SCENE_MARK \o <<SP, "a">>,
      <<SP>> \o SCENE_MARK \o <<"b", SP>>,
      SCENE_MARK \o <<SP>>,
      CHARACTER_MARK \o <<SP, "c">>,
      <<"#", "x">>,
      <<SP, "/", "/">>,
      <<"x">>,
      <<"/", SP, "#">>,
      <<"S", "C", "E", "N", "E">>,
      CHARACTER_MARK,
      <<SP>> }

\* the lines of the scripts create_animation is run on
ScriptLineSet ==
    { SCENE_MARK \o <<SP, "a">>,
      SCENE_MARK \o <<"b">>,
      <<"x">> }

\* all sequences over S of length at most n
SeqsUpTo(S, n) == UNION { [1..k -> S] : k \in 0..n }

\* the text whose lines are ls
RECURSIVE JoinLines(_)
JoinLines(ls) ==
    IF ls = <<>> THEN <<>>
    ELSE IF Len(ls) = 1 THEN ls[1]
    ELSE ls[1] \o <<NL>> \o JoinLines(Tail(ls))

ParseScripts == { JoinLines(ls) : ls \in SeqsUpTo(ParseLineSet, MaxLines) }
AnimationScripts == { JoinLines(ls) : ls \in SeqsUpTo(ScriptLineSet, MaxScriptLines) }

\* ------------------------------------------------------------------- state
VARIABLES
    script,           \* the script argument
    output_filename,  \* the output_filename argument
    base64_bound,     \* whether the name base64 resolves at line 90
    pc,               \* position in _parse_script / create_animation
    lines,            \* script.strip().split('\n')
    pos,              \* index of the next line the for loop of _parse_script takes
    scenes,           \* the list _parse_script builds and returns
    current_scene,    \* the scene being filled
    idx,              \* index of the scene the for loop of create_animation is at
    clips,            \* the list create_animation collects the scene clips in
    now,              \* int(time.time())
    files,            \* the files written so far: path -> content
    response,         \* the response of the image POST of the current scene
    scene_image_path, \* the path generate_scene_image returned for the current scene
    attempts,         \* scenes generate_scene_image was called for, in call order
    checks,           \* the status checks made and what each returned, in call order
    posts,            \* the image POSTs sent and what each was answered, in call order
    outcome,          \* how the loop body ended for each scene taken so far
    rendered,         \* the clip lists concatenate_videoclips was called with
    written,          \* the paths write_videofile was called with
    result            \* how create_animation ended: a return value or an exception

parseVars == <<script, pc, lines, pos, scenes, current_scene>>
runVars == <<output_filename, base64_bound, idx, clips, now, files, response,
             scene_image_path, attempts, checks, posts, outcome, rendered, written,
             result>>
vars == <<parseVars, runVars>>

EmptyScene == [description |-> <<>>, characters |-> <<>>, actions |-> <<>>]

\* ------------------------------------------------------------ _parse_script
\* Seal without the test of the description
SealAlways(scs, cur) ==
    Append(scs, cur)

\* lines 177-178 and 189-190: a scene joins the list only with a description
Seal(scs, cur) ==
    IF cur.description # <<>> THEN Append(scs, cur) ELSE scs

\* NewScene without the strip() of the remainder
NewSceneUnstripped(line) ==
    [description |-> SliceFrom(line, 6),
     characters |-> <<>>,
     actions |-> <<>>]

\* lines 179-183: the scene a SCENE: line opens
NewScene(line) ==
    [description |-> Strip(SliceFrom(line, 6)),
     characters |-> <<>>,
     actions |-> <<>>]

\* line 185
AddCharacter(cur, line) ==
    [cur EXCEPT !.characters = Append(@, Strip(SliceFrom(line, 10)))]

\* AddAction with insert(0, line) for append(line)
AddActionFront(cur, line) ==
    [cur EXCEPT !.actions = <<line>> \o @]

\* line 187
AddAction(cur, line) ==
    [cur EXCEPT !.actions = Append(@, line)]

\* lines 168-171: the two locals and the list the loop runs over
ParseBegin ==
    /\ pc = "parse"
    /\ scenes' = <<>>
    /\ current_scene' = EmptyScene
    /\ lines' = SplitLines(Strip(script))
    /\ pos' = 1
    /\ pc' = "scan"
    /\ UNCHANGED <<script, runVars>>

\* lines 171-187: one iteration of the for loop
ParseLine ==
    /\ pc = "scan"
    /\ pos <= Len(lines)
    /\ LET line == Strip(lines[pos]) IN
         IF line = <<>> THEN
             UNCHANGED <<scenes, current_scene>>
         ELSE IF StartsWith(line, SCENE_MARK) THEN
             /\ scenes' = Seal(scenes, current_scene)
             /\ current_scene' = NewScene(line)
         ELSE IF StartsWith(line, CHARACTER_MARK) THEN
             /\ current_scene' = AddCharacter(current_scene, line)
             /\ UNCHANGED scenes
         ELSE IF ~IsComment(line) THEN
             /\ current_scene' = AddAction(current_scene, line)
             /\ UNCHANGED scenes
         ELSE
             UNCHANGED <<scenes, current_scene>>
    /\ pos' = pos + 1
    /\ UNCHANGED <<script, pc, lines, runVars>>

\* lines 189-192: seal the last scene and return
ParseEnd ==
    /\ pc = "scan"
    /\ pos > Len(lines)
    /\ scenes' = Seal(scenes, current_scene)
    /\ pc' = "parsed"
    /\ UNCHANGED <<script, lines, pos, current_scene, runVars>>

\* ------------------------------------------------------ the collaborators
\* what GET summary.json can give check_api_status: the fetch or the decoding
\* raises, or a document with a page status and the active incidents' impacts
SummaryResponses ==
    { [raises |-> r, status |-> st, incidents |-> inc] :
        r \in BOOLEAN,
        st \in {"UP", "HASISSUES"},
        inc \in {<<>>, <<"MINOROUTAGE">>, <<"MINOROUTAGE", "MAJOROUTAGE">>} }

\* what GET v2/components.json can give check_components_status
ComponentsResponses ==
    { [raises |-> r, components |-> cs] :
        r \in BOOLEAN,
        cs \in {<<>>, <<"OPERATIONAL">>, <<"OPERATIONAL", "MAJOROUTAGE">>} }

\* lines 18-34
check_api_status(resp) ==
    IF resp.raises THEN FALSE
    ELSE LET is_up == resp.status = "UP"
             has_major_outage ==
                 \E i \in 1..Len(resp.incidents) : resp.incidents[i] = "MAJOROUTAGE"
         IN  is_up /\ ~has_major_outage

\* lines 36-46
check_components_status(resp) ==
    IF resp.raises THEN FALSE
    ELSE \A i \in 1..Len(resp.components) : resp.components[i] = "OPERATIONAL"

\* what the image POST can give: a RequestException (no connection, or an
\* error status at raise_for_status), or a 2xx body: one with an artifact, a
\* JSON document without artifacts, or no JSON at all
PostResponses == {"request_exception", "image", "no_artifacts", "not_json"}

\* the messages of the exceptions
MSG_UNAVAILABLE == "Stability AI API is currently experiencing issues"
MSG_IMAGE_FAILED == "Image generation failed"
MSG_NO_SCENES == "No scenes were successfully generated"
\* the exceptions the collaborators raise
MSG_CONCATENATE == "concatenate_videoclips failed"
MSG_WRITE == "write_videofile failed"

\* line 15
output_dir ==
    <<"g", "e", "n", "e", "r", "a", "t", "e", "d", "_",
      "a", "n", "i", "m", "a", "t", "i", "o", "n", "s">>

\* os.path.join(a, b) on POSIX: an absolute b replaces a
PathJoin(a, b) ==
    IF StartsWith(b, <<"/">>) THEN b
    ELSE IF a = <<>> \/ a[Len(a)] = "/" THEN a \o b
    ELSE a \o <<"/">> \o b

\* str(n) for n >= 0
DigitChar(d) == <<"0", "1", "2", "3", "4", "5", "6", "7", "8", "9">>[d + 1]

RECURSIVE DecimalStr(_)
DecimalStr(n) ==
    IF n < 10 THEN <<DigitChar(n)>>
    ELSE DecimalStr(n \div 10) \o <<DigitChar(n % 10)>>

\* line 87
ImagePath(t) ==
    PathJoin(output_dir,
             <<"s", "c", "e", "n", "e", "_">> \o DecimalStr(t) \o <<".", "p", "n", "g">>)

\* the output_filename arguments tried
OutputFilenames == { <<"o">>, <<"/", "o">> }

\* f after writing content c to path p
WriteFile(f, p, c) ==
    [q \in (DOMAIN f) \cup {p} |-> IF q = p THEN c ELSE f[q]]

NoFiles == [q \in {} |-> "empty"]

Max(a, b) == IF a >= b THEN a ELSE b

\* scene_duration with the minimum applied to the empty scene only
scene_durationEmptyOnly(scene) ==
    IF Len(scene.actions) = 0 THEN 5 ELSE Len(scene.actions) * 3

\* line 117
scene_duration(scene) == Max(Len(scene.actions) * 3, 5)

\* text_clips with enumerate() counting from 1
text_clipsFromOne(scene) ==
    [i \in 1..Len(scene.actions) |->
        [text |-> scene.actions[i], start |-> i * 3, duration |-> 3]]

\* lines 121-132: one overlay per action, enumerate() counting from 0
text_clips(scene) ==
    [i \in 1..Len(scene.actions) |->
        [text |-> scene.actions[i], start |-> (i - 1) * 3, duration |-> 3]]

\* lines 117-138: the composite clip of scene number i, built on image path p
SceneClip(i, scene, p) ==
    [scene |-> i,
     image |-> p,
     duration |-> scene_duration(scene),
     overlays |-> text_clips(scene),
     closed |-> FALSE]

\* AppendClip with insert(0, clip) for append(clip)
PrependClip(cl, clip) == <<clip>> \o cl

\* line 139
AppendClip(cl, clip) == Append(cl, clip)

\* --------------------------------------------------------- create_animation
\* line 106, and the for loop of line 108 takes its first scene
StartScenes ==
    /\ pc = "parsed"
    /\ clips' = <<>>
    /\ idx' = 1
    /\ pc' = "scene"
    /\ UNCHANGED <<script, lines, pos, scenes, current_scene>>
    /\ UNCHANGED <<output_filename, base64_bound, now, files, response,
                   scene_image_path, attempts, checks, posts, outcome,
                   rendered, written, result>>

\* SkipScene with break for continue: the loop ends at the first failure
SkipSceneBreak(msg) ==
    /\ outcome' = Append(outcome, msg)
    /\ idx' = Len(scenes) + 1
    /\ pc' = "scene"

\* lines 141-143: the exception is printed and the loop goes to the next scene
SkipScene(msg) ==
    /\ outcome' = Append(outcome, msg)
    /\ idx' = idx + 1
    /\ pc' = "scene"

\* CheckApiStatus with both operands of line 54 evaluated: no short circuit
CheckApiStatusNoShortCircuit ==
    /\ pc = "scene"
    /\ idx <= Len(scenes)
    /\ attempts' = Append(attempts, idx)
    /\ \E resp \in SummaryResponses :
         LET ok == check_api_status(resp) IN
         /\ checks' = Append(checks, [scene |-> idx, check |-> "api", ok |-> ok])
         /\ pc' = "components"
         /\ UNCHANGED <<idx, outcome>>
    /\ UNCHANGED <<script, lines, pos, scenes, current_scene>>
    /\ UNCHANGED <<output_filename, base64_bound, clips, now, files, response,
                   scene_image_path, posts, rendered, written, result>>

\* lines 111 and 54: generate_scene_image is entered and asks check_api_status
CheckApiStatus ==
    /\ pc = "scene"
    /\ idx <= Len(scenes)
    /\ attempts' = Append(attempts, idx)
    /\ \E resp \in SummaryResponses :
         LET ok == check_api_status(resp) IN
         /\ checks' = Append(checks, [scene |-> idx, check |-> "api", ok |-> ok])
         /\ IF ok
            THEN /\ pc' = "components"
                 /\ UNCHANGED <<idx, outcome>>
            ELSE SkipScene(MSG_UNAVAILABLE)
    /\ UNCHANGED <<script, lines, pos, scenes, current_scene>>
    /\ UNCHANGED <<output_filename, base64_bound, clips, now, files, response,
                   scene_image_path, posts, rendered, written, result>>

\* CheckComponentsStatus with its result ignored: the POST is sent anyway
CheckComponentsStatusIgnored ==
    /\ pc = "components"
    /\ \E resp \in ComponentsResponses :
         LET ok == check_components_status(resp) IN
         /\ checks' = Append(checks, [scene |-> idx, check |-> "components", ok |-> ok])
         /\ pc' = "post"
         /\ UNCHANGED <<idx, outcome>>
    /\ UNCHANGED <<script, lines, pos, scenes, current_scene>>
    /\ UNCHANGED <<output_filename, base64_bound, clips, now, files, response,
                   scene_image_path, attempts, posts, rendered, written, result>>

\* lines 54-55: the right operand of the or
CheckComponentsStatus ==
    /\ pc = "components"
    /\ \E resp \in ComponentsResponses :
         LET ok == check_components_status(resp) IN
         /\ checks' = Append(checks, [scene |-> idx, check |-> "components", ok |-> ok])
         /\ IF ok
            THEN /\ pc' = "post"
                 /\ UNCHANGED <<idx, outcome>>
            ELSE SkipScene(MSG_UNAVAILABLE)
    /\ UNCHANGED <<script, lines, pos, scenes, current_scene>>
    /\ UNCHANGED <<output_filename, base64_bound, clips, now, files, response,
                   scene_image_path, attempts, posts, rendered, written, result>>

\* lines 81-83 and 94-95: the POST; the clock may tick while it is in flight
PostImage ==
    /\ pc = "post"
    /\ \E t \in {now, now + 1} :
         /\ t <= MaxClock
         /\ now' = t
    /\ \E r \in PostResponses :
         /\ posts' = Append(posts, [scene |-> idx, response |-> r])
         /\ IF r = "request_exception"
            THEN /\ SkipScene(MSG_IMAGE_FAILED)
                 /\ UNCHANGED response
            ELSE /\ response' = r
                 /\ pc' = "save"
                 /\ UNCHANGED <<idx, outcome>>
    /\ UNCHANGED <<script, lines, pos, scenes, current_scene>>
    /\ UNCHANGED <<output_filename, base64_bound, clips, files,
                   scene_image_path, attempts, checks, rendered, written, result>>

\* lines 86-92: pick the artifact, open the file, decode, write, return
SaveImage ==
    /\ pc = "save"
    /\ IF response = "not_json"
       THEN \* line 86: json() raises a RequestException, re-raised at line 95
            /\ SkipScene(MSG_IMAGE_FAILED)
            /\ UNCHANGED <<files, scene_image_path>>
       ELSE IF response = "no_artifacts"
       THEN \* line 86 raises KeyError or IndexError
            /\ SkipScene("KeyError")
            /\ UNCHANGED <<files, scene_image_path>>
       ELSE LET image_path == ImagePath(now) IN
            \/ \* line 89: open() raises
               /\ SkipScene("OSError")
               /\ UNCHANGED <<files, scene_image_path>>
            \/ \* line 90: the file is open and truncated, base64 is no name
               /\ ~base64_bound
               /\ files' = WriteFile(files, image_path, "empty")
               /\ SkipScene("NameError")
               /\ UNCHANGED scene_image_path
            \/ \* lines 90-92
               /\ base64_bound
               /\ files' = WriteFile(files, image_path, idx)
               /\ scene_image_path' = image_path
               /\ pc' = "clip"
               /\ UNCHANGED <<idx, outcome>>
    /\ UNCHANGED <<script, lines, pos, scenes, current_scene>>
    /\ UNCHANGED <<output_filename, base64_bound, clips, now, response,
                   attempts, checks, posts, rendered, written, result>>

\* lines 117-139: the clip of the scene, or one of the constructors raises
BuildClip ==
    /\ pc = "clip"
    /\ \/ /\ clips' = AppendClip(clips, SceneClip(idx, scenes[idx], scene_image_path))
          /\ outcome' = Append(outcome, "ok")
          /\ idx' = idx + 1
          /\ pc' = "scene"
       \/ /\ SkipScene("clip construction failed")
          /\ UNCHANGED clips
    /\ UNCHANGED <<script, lines, pos, scenes, current_scene>>
    /\ UNCHANGED <<output_filename, base64_bound, now, files, response,
                   scene_image_path, attempts, checks, posts, rendered, written, result>>

\* CheckClips without the test of line 145
CheckClipsNoTest ==
    /\ pc = "scene"
    /\ idx > Len(scenes)
    /\ pc' = "concatenate"
    /\ UNCHANGED result
    /\ UNCHANGED <<script, lines, pos, scenes, current_scene>>
    /\ UNCHANGED <<output_filename, base64_bound, idx, clips, now, files, response,
                   scene_image_path, attempts, checks, posts, outcome, rendered, written>>

\* lines 145-146, reached when the for loop has run out of scenes
CheckClips ==
    /\ pc = "scene"
    /\ idx > Len(scenes)
    /\ IF clips = <<>>
       THEN /\ result' = [kind |-> "raised", value |-> MSG_NO_SCENES]
            /\ pc' = "done"
       ELSE /\ pc' = "concatenate"
            /\ UNCHANGED result
    /\ UNCHANGED <<script, lines, pos, scenes, current_scene>>
    /\ UNCHANGED <<output_filename, base64_bound, idx, clips, now, files, response,
                   scene_image_path, attempts, checks, posts, outcome, rendered, written>>

\* lines 149-150: concatenate_videoclips returns the final video or raises
Concatenate ==
    /\ pc = "concatenate"
    /\ rendered' = Append(rendered, clips)
    /\ \/ /\ pc' = "write"
          /\ UNCHANGED result
       \/ /\ result' = [kind |-> "raised", value |-> MSG_CONCATENATE]
          /\ pc' = "done"
    /\ UNCHANGED <<script, lines, pos, scenes, current_scene>>
    /\ UNCHANGED <<output_filename, base64_bound, idx, clips, now, files, response,
                   scene_image_path, attempts, checks, posts, outcome, written>>

\* WriteVideofile with the exception of write_videofile swallowed
WriteVideofileSwallow ==
    /\ pc = "write"
    /\ LET output_path == PathJoin(output_dir, output_filename) IN
         /\ written' = Append(written, output_path)
         /\ \/ /\ files' = WriteFile(files, output_path, "video")
               /\ pc' = "cleanup"
               /\ UNCHANGED result
            \/ /\ pc' = "cleanup"
               /\ UNCHANGED <<result, files>>
    /\ UNCHANGED <<script, lines, pos, scenes, current_scene>>
    /\ UNCHANGED <<output_filename, base64_bound, idx, clips, now, response,
                   scene_image_path, attempts, checks, posts, outcome, rendered>>

\* lines 150-157: write_videofile writes the output file or raises
WriteVideofile ==
    /\ pc = "write"
    /\ LET output_path == PathJoin(output_dir, output_filename) IN
         /\ written' = Append(written, output_path)
         /\ \/ /\ files' = WriteFile(files, output_path, "video")
               /\ pc' = "cleanup"
               /\ UNCHANGED result
            \/ /\ result' = [kind |-> "raised", value |-> MSG_WRITE]
               /\ pc' = "done"
               /\ UNCHANGED files
    /\ UNCHANGED <<script, lines, pos, scenes, current_scene>>
    /\ UNCHANGED <<output_filename, base64_bound, idx, clips, now, response,
                   scene_image_path, attempts, checks, posts, outcome, rendered>>

\* lines 159-164: every clip is closed and the output path returned
Cleanup ==
    /\ pc = "cleanup"
    /\ clips' = [i \in 1..Len(clips) |-> [clips[i] EXCEPT !.closed = TRUE]]
    /\ result' = [kind |-> "returned",
                  value |-> PathJoin(output_dir, output_filename)]
    /\ pc' = "done"
    /\ UNCHANGED <<script, lines, pos, scenes, current_scene>>
    /\ UNCHANGED <<output_filename, base64_bound, idx, now, files, response,
                   scene_image_path, attempts, checks, posts, outcome, rendered, written>>

\* ---------------------------------------------------------- specifications
\* the state create_animation starts from, but for the script
InitRun ==
    /\ output_filename \in OutputFilenames
    /\ base64_bound \in BOOLEAN
    /\ pc = "parse"
    /\ lines = <<>>
    /\ pos = 1
    /\ scenes = <<>>
    /\ current_scene = EmptyScene
    /\ idx = 1
    /\ clips = <<>>
    /\ now = 0
    /\ files = NoFiles
    /\ response = "none"
    /\ scene_image_path = <<>>
    /\ attempts = <<>>
    /\ checks = <<>>
    /\ posts = <<>>
    /\ outcome = <<>>
    /\ rendered = <<>>
    /\ written = <<>>
    /\ result = [kind |-> "none", value |-> "none"]

\* create_animation(script, output_filename)
Init ==
    /\ script \in AnimationScripts
    /\ InitRun

Next ==
    \/ ParseBegin
    \/ ParseLine
    \/ ParseEnd
    \/ StartScenes
    \/ CheckApiStatus
    \/ CheckComponentsStatus
    \/ PostImage
    \/ SaveImage
    \/ BuildClip
    \/ CheckClips
    \/ Concatenate
    \/ WriteVideofile
    \/ Cleanup

Spec == Init /\ [][Next]_vars

\* _parse_script(script) called on its own
InitParse ==
    /\ script \in ParseScripts
    /\ InitRun
    /\ output_filename = <<"o">>
    /\ base64_bound = FALSE

NextParse == ParseBegin \/ ParseLine \/ ParseEnd

SpecParse == InitParse /\ [][NextParse]_vars

\* the action lines of the scene a clip is built for on its own
ActionTexts == { <<"x">>, <<"y">>, <<"x", SP, "y">> }

\* create_animation at line 117 for the only scene of a script: the scene is
\* parsed, the checks passed, the image is saved
InitClip ==
    /\ \E acts \in SeqsUpTo(ActionTexts, MaxActions) :
         LET scene == [description |-> <<"a">>, characters |-> <<>>, actions |-> acts]
         IN  /\ script = JoinLines(<<SCENE_MARK \o <<SP, "a">>>> \o acts)
             /\ scenes = <<scene>>
             /\ current_scene = scene
    /\ lines = SplitLines(Strip(script))
    /\ pos = Len(lines) + 1
    /\ pc = "clip"
    /\ output_filename = <<"o">>
    /\ base64_bound = TRUE
    /\ idx = 1
    /\ clips = <<>>
    /\ now = 0
    /\ files = WriteFile(NoFiles, ImagePath(0), 1)
    /\ response = "image"
    /\ scene_image_path = ImagePath(0)
    /\ attempts = <<1>>
    /\ checks = <<[scene |-> 1, check |-> "api", ok |-> TRUE],
                  [scene |-> 1, check |-> "components", ok |-> TRUE]>>
    /\ posts = <<[scene |-> 1, response |-> "image"]>>
    /\ outcome = <<>>
    /\ rendered = <<>>
    /\ written = <<>>
    /\ result = [kind |-> "none", value |-> "none"]

NextClip == BuildClip

SpecClip == InitClip /\ [][NextClip]_vars

\* ------------------------------------------------- the script, line by line
\* The claims about _parse_script speak of the lines of the script text; the
\* definitions below read them off the text itself, not off the scanner.
\* T is the sequence of the trimmed lines of the text.
SrcTrimmed ==
    LET src == SplitLines(script) IN [i \in 1..Len(src) |-> Strip(src[i])]

IsSceneLine(t) == StartsWith(t, SCENE_MARK)
IsCharacterLine(t) == ~IsSceneLine(t) /\ StartsWith(t, CHARACTER_MARK)
IsActionLine(t) ==
    /\ t # <<>>
    /\ ~IsSceneLine(t)
    /\ ~IsCharacterLine(t)
    /\ ~StartsWith(t, HASH_MARK)
    /\ ~StartsWith(t, SLASHES_MARK)
Remainder(t) == Strip(SliceFrom(t, 6))

SceneLines(T) == { i \in DOMAIN T : IsSceneLine(T[i]) }
NamedSceneLines(T) == { i \in DOMAIN T : IsSceneLine(T[i]) /\ Remainder(T[i]) # <<>> }
CharacterLines(T) == { i \in DOMAIN T : IsCharacterLine(T[i]) }
ActionLines(T) == { i \in DOMAIN T : IsActionLine(T[i]) }

\* the k-th smallest element of a set of numbers
Kth(S, k) == CHOOSE i \in S : Cardinality({ j \in S : j < i }) = k - 1

\* the lines after SCENE: line p and before the next SCENE: line
Region(T, p) ==
    { i \in DOMAIN T :
        /\ i > p
        /\ \A q \in (p + 1)..i : ~IsSceneLine(T[q]) }

\* the trimmed lines of S, in line order
TextOf(T, S) == [n \in 1..Cardinality(S) |-> T[Kth(S, n)]]

\* the trimmed remainders of the CHARACTER: lines of S, in line order
NamesOf(T, S) == [n \in 1..Cardinality(S) |-> Strip(SliceFrom(T[Kth(S, n)], 10))]

\* the lines that belong to a scene with a description
Governed(T) == UNION { Region(T, p) : p \in NamedSceneLines(T) }

RECURSIVE SumLen(_, _)
SumLen(scs, field) ==
    IF scs = <<>> THEN 0
    ELSE Len(IF field = "actions" THEN Head(scs).actions ELSE Head(scs).characters)
         + SumLen(Tail(scs), field)

Parsed == pc = "parsed"

\* ---------------------------------------------------------------- claims
\* C8: when _parse_script returns, the number of scenes equals the number of
\* lines that, trimmed, start with SCENE: and have a non-empty trimmed
\* remainder; the scenes are in line order and the description of each is
\* that remainder.
C8_SceneCountAndDescriptions ==
    Parsed =>
        LET T == SrcTrimmed
            named == NamedSceneLines(T)
        IN  /\ Len(scenes) = Cardinality(named)
            /\ \A k \in 1..Len(scenes) :
                 scenes[k].description = Remainder(T[Kth(named, k)])

\* a script with two described scenes, different descriptions, and a SCENE:
\* line without description
C8_Witness ==
    /\ Parsed
    /\ Len(scenes) = 2
    /\ scenes[1].description # scenes[2].description
    /\ Cardinality(SceneLines(SrcTrimmed)) = 3

\* C9: when _parse_script returns, the actions of each scene are exactly the
\* action lines between its SCENE: line and the next SCENE: line (or the end),
\* in line order, and so are its characters; nothing of another scene's lines.
C9_ActionsOfOwnRegion ==
    Parsed =>
        LET T == SrcTrimmed
            named == NamedSceneLines(T)
            acts == ActionLines(T)
            chars == CharacterLines(T)
        IN  \A k \in 1..Len(scenes) :
                /\ k <= Cardinality(named)
                /\ LET own == Region(T, Kth(named, k)) IN
                     /\ scenes[k].actions = TextOf(T, acts \cap own)
                     /\ scenes[k].characters = NamesOf(T, chars \cap own)

\* two scenes, each with an action of its own, the two actions different
C9_Witness ==
    /\ Parsed
    /\ Len(scenes) = 2
    /\ Len(scenes[1].actions) = 1
    /\ Len(scenes[2].actions) = 1
    /\ scenes[1].actions # scenes[2].actions

\* C10: at every point of the scan no scene of the list has an empty
\* description; a script without SCENE: line gives the empty list; and the
\* CHARACTER: and action lines before the first SCENE: line or under a SCENE:
\* line without description are in no returned scene: the returned scenes hold
\* as many actions and characters as there are such lines under described
\* scenes, and each is the text of one of those.
C10_NoEmptyDescription ==
    /\ \A k \in 1..Len(scenes) : scenes[k].description # <<>>
    /\ Parsed =>
         LET T == SrcTrimmed
             kept == Governed(T)
             acts == ActionLines(T) \cap kept
             chars == CharacterLines(T) \cap kept
         IN  /\ SceneLines(T) = {} => scenes = <<>>
             /\ SumLen(scenes, "actions") = Cardinality(acts)
             /\ SumLen(scenes, "characters") = Cardinality(chars)
             /\ \A k \in 1..Len(scenes) :
                  /\ \A n \in 1..Len(scenes[k].actions) :
                       \E i \in acts : scenes[k].actions[n] = T[i]
                  /\ \A n \in 1..Len(scenes[k].characters) :
                       \E i \in chars :
                           scenes[k].characters[n] = Strip(SliceFrom(T[i], 10))

\* a script with an action line before the first SCENE: line, an action line
\* under a SCENE: line without description, and a described scene
C10_Witness ==
    /\ Parsed
    /\ Len(scenes) = 1
    /\ LET T == SrcTrimmed IN
         /\ \E i \in ActionLines(T) : \A p \in SceneLines(T) : i < p
         /\ \E i \in ActionLines(T) :
              \E p \in SceneLines(T) \ NamedSceneLines(T) : i \in Region(T, p)

\* ------------------------------------------------------ create_animation
\* the scenes whose loop body ran to its end: image and clip both made
OkScenes == { k \in 1..Len(outcome) : outcome[k] = "ok" }

\* the for loop of line 108 is over
LoopDone == pc \in {"concatenate", "write", "cleanup", "done"}

\* what the except of line 141 catches
PerSceneErrors ==
    {MSG_UNAVAILABLE, MSG_IMAGE_FAILED, "KeyError", "OSError", "NameError",
     "clip construction failed"}

RenderErrors == {MSG_CONCATENATE, MSG_WRITE}

OutputPath == PathJoin(output_dir, output_filename)

\* C1: the list handed to the renderer holds exactly one clip for each scene
\* whose image generation and clip construction both succeeded, none for a
\* failed scene, in the order of the scenes.
C1_TimelineIsSurvivors ==
    \A c \in 1..Len(rendered) :
        LET timeline == rendered[c] IN
        /\ Len(outcome) = Len(scenes)
        /\ Len(timeline) = Cardinality(OkScenes)
        /\ \A n \in 1..Len(timeline) :
             /\ timeline[n].scene = Kth(OkScenes, n)
             /\ timeline[n].overlays = text_clips(scenes[timeline[n].scene])

\* three scenes, the second failed, the renderer got the other two
C1_Witness ==
    /\ Len(scenes) = 3
    /\ rendered # <<>>
    /\ OkScenes = {1, 3}
    /\ Len(rendered[1]) = 2

\* C2: a failure in one scene never aborts create_animation: the scenes are
\* attempted once each, in parse order, the ones after a failed scene too,
\* and no per-scene failure is what create_animation raises.
C2_EverySceneAttempted ==
    /\ \A i \in 1..Len(attempts) : attempts[i] = i
    /\ Len(attempts) <= Len(scenes)
    /\ LoopDone =>
         /\ Len(attempts) = Len(scenes)
         /\ Len(outcome) = Len(scenes)
    /\ result.kind = "raised" =>
         /\ pc = "done"
         /\ result.value \notin PerSceneErrors

\* three scenes, the first failed, the third made its clip
C2_Witness ==
    /\ pc = "done"
    /\ Len(scenes) = 3
    /\ outcome[1] \in PerSceneErrors
    /\ outcome[3] = "ok"
    /\ attempts = <<1, 2, 3>>

\* C3: if no scene yields a clip (also with no scene at all) create_animation
\* ends with the no-scenes error, raised only after every scene was
\* attempted, and the renderer is never called.
C3_NoScenesProduced ==
    /\ (LoopDone /\ OkScenes = {}) =>
         /\ pc = "done"
         /\ result = [kind |-> "raised", value |-> MSG_NO_SCENES]
         /\ rendered = <<>>
         /\ written = <<>>
    /\ result.value = MSG_NO_SCENES =>
         /\ Len(attempts) = Len(scenes)
         /\ Len(outcome) = Len(scenes)
         /\ OkScenes = {}

\* two scenes, both failed, one of them after its POST was sent
C3_Witness ==
    /\ pc = "done"
    /\ Len(scenes) = 2
    /\ posts # <<>>
    /\ result.value = MSG_NO_SCENES

\* C4 as stated: once a health check reports the service unavailable, no
\* further scene is processed and create_animation ends with the
\* service-unavailable error.
C4_FailFast ==
    \A n \in 1..Len(checks) :
        ~checks[n].ok =>
            /\ Len(attempts) = checks[n].scene
            /\ pc = "done" => result = [kind |-> "raised", value |-> MSG_UNAVAILABLE]

\* C4 amended: a health check that reports the service unavailable makes
\* create_animation skip that scene only: no POST and no clip for it; the
\* other scenes are still attempted, and the service-unavailable error is
\* never what create_animation raises (with no clip at all it is the
\* no-scenes error).
C4_UnavailableSkipsOneScene ==
    /\ \A n \in 1..Len(checks) :
         ~checks[n].ok =>
            LET k == checks[n].scene IN
            /\ \A m \in 1..Len(posts) : posts[m].scene # k
            /\ \A m \in 1..Len(clips) : clips[m].scene # k
            /\ Len(outcome) >= k
            /\ outcome[k] = MSG_UNAVAILABLE
            /\ pc = "done" => Len(attempts) = Len(scenes)
    /\ result.value # MSG_UNAVAILABLE
    /\ (pc = "done" /\ \A k \in 1..Len(outcome) : outcome[k] = MSG_UNAVAILABLE) =>
         result.value = MSG_NO_SCENES

\* the service was unavailable for the first of two scenes, the second made
\* its clip and the video was written
C4_Witness ==
    /\ pc = "done"
    /\ Len(scenes) = 2
    /\ ~checks[1].ok
    /\ outcome[2] = "ok"
    /\ result.kind = "returned"

\* C5: with every health check passed and every POST answered with an image
\* (and nothing else going wrong: the file opens, the clips are built, the
\* render succeeds), every scene has its image path and its clip, the
\* renderer gets one clip per scene and create_animation returns the output
\* path.
C5_HealthyRunReturnsPath ==
    ( /\ pc = "done"
      /\ Len(scenes) > 0
      /\ \A n \in 1..Len(checks) : checks[n].ok
      /\ \A m \in 1..Len(posts) : posts[m].response = "image"
      /\ \A k \in 1..Len(outcome) :
           outcome[k] \notin {"OSError", "clip construction failed"}
      /\ result.value \notin RenderErrors )
    =>
    ( /\ \A k \in 1..Len(scenes) : outcome[k] = "ok"
      /\ Len(rendered) = 1
      /\ Len(rendered[1]) = Len(scenes)
      /\ result = [kind |-> "returned", value |-> OutputPath] )

C7_RenderOnce ==
    /\ Len(rendered) <= 1
    /\ Len(written) <= 1
    /\ written # <<>> => rendered # <<>>
    /\ rendered # <<>> =>
         /\ Len(attempts) = Len(scenes)
         /\ Len(outcome) = Len(scenes)
         /\ rendered[1] # <<>>
    /\ result.kind = "returned" =>
         /\ Len(written) = 1
         /\ OutputPath \in DOMAIN files
         /\ files[OutputPath] = "video"
    /\ (pc = "done" /\ rendered # <<>> /\ OutputPath \notin DOMAIN files) =>
         /\ result.kind = "raised"
         /\ result.value \in RenderErrors

\* a run of two scenes whose write_videofile raised
C7_Witness ==
    /\ pc = "done"
    /\ Len(scenes) = 2
    /\ Len(written) = 1
    /\ result = [kind |-> "raised", value |-> MSG_WRITE]

\* ------------------------------------------------------------ the clips
\* C11: the clip of a scene with n actions has n overlays in action order;
\* overlay i (from 0) starts at 3*i seconds, lasts 3 seconds and ends no later
\* than the clip; with no action the overlay list is empty.
C11_OverlaysFitTheClip ==
    \A c \in 1..Len(clips) :
        LET clip == clips[c]
            acts == scenes[clip.scene].actions
            n == Len(acts)
        IN  /\ Len(clip.overlays) = n
            /\ \A i \in 0..(n - 1) :
                 LET ov == clip.overlays[i + 1] IN
                 /\ ov.text = acts[i + 1]
                 /\ ov.start = 3 * i
                 /\ ov.duration = 3
                 /\ ov.start + ov.duration <= clip.duration

\* the clip of a scene with three actions, not all the same
C11_Witness ==
    /\ Len(clips) = 1
    /\ Len(clips[1].overlays) = 3
    /\ clips[1].overlays[1].text # clips[1].overlays[3].text

\* C12: the duration of a clip is max(3 * number of actions, 5): at least 5,
\* and no shorter than the duration of a scene with fewer actions.
C12_DurationFloorAndGrowth ==
    \A c \in 1..Len(clips) :
        LET clip == clips[c]
            acts == scenes[clip.scene].actions
            n == Len(acts)
        IN  /\ clip.duration >= 5
            /\ clip.duration >= 3 * n
            /\ clip.duration \in {5, 3 * n}
            /\ \A k \in 0..n :
                 scene_duration([scenes[clip.scene] EXCEPT
                                    !.actions = SubSeq(acts, 1, k)])
                     <= clip.duration

\* the clip of a scene with one action: the floor of 5 seconds applies
C12_Witness ==
    /\ Len(clips) = 1
    /\ Len(scenes[1].actions) = 1
    /\ clips[1].duration = 5

\* ------------------------------------------------- the scanner, step by step
IsCommentLine(t) ==
    /\ ~IsSceneLine(t)
    /\ ~IsCharacterLine(t)
    /\ StartsWith(t, HASH_MARK) \/ StartsWith(t, SLASHES_MARK)

\* C13: each trimmed non-blank line is treated by the first rule that matches,
\* in the order SCENE:, CHARACTER:, comment, action: a comment line changes
\* nothing, a CHARACTER: line adds its trimmed remainder to the characters and
\* nothing to the actions, any other line is added once, as the full trimmed
\* line, to the actions of the scene being filled; so no scene ever holds a
\* comment line among its actions.
C13_LinesClassified ==
    /\ [](\A k \in 1..Len(scenes) :
            \A n \in 1..Len(scenes[k].actions) : IsActionLine(scenes[k].actions[n]))
    /\ [][ (pc = "scan" /\ pos <= Len(lines)) =>
             LET t == Strip(lines[pos]) IN
             /\ t = <<>> => UNCHANGED <<scenes, current_scene>>
             /\ IsSceneLine(t) =>
                  current_scene' = [description |-> Remainder(t),
                                    characters |-> <<>>,
                                    actions |-> <<>>]
             /\ IsCharacterLine(t) =>
                  /\ scenes' = scenes
                  /\ current_scene'.description = current_scene.description
                  /\ current_scene'.actions = current_scene.actions
                  /\ current_scene'.characters =
                         Append(current_scene.characters, Strip(SliceFrom(t, 10)))
             /\ IsCommentLine(t) => UNCHANGED <<scenes, current_scene>>
             /\ IsActionLine(t) =>
                  /\ scenes' = scenes
                  /\ current_scene'.description = current_scene.description
                  /\ current_scene'.characters = current_scene.characters
                  /\ current_scene'.actions = Append(current_scene.actions, t)
       ]_vars

\* a scene with a character, a '//' comment and an action
C13_Witness ==
    /\ Parsed
    /\ Len(scenes) = 1
    /\ Len(scenes[1].characters) = 1
    /\ Len(scenes[1].actions) = 1
    /\ \E i \in DOMAIN SrcTrimmed : StartsWith(SrcTrimmed[i], SLASHES_MARK)

\* ------------------------------------------------------ the health checks
\* the status checks made for scene k, in call order
ChecksOf(k) == SelectSeq(checks, LAMBDA e : e.scene = k)

HasMajorOutage(resp) ==
    \E i \in DOMAIN resp.incidents : resp.incidents[i] = "MAJOROUTAGE"

HasDegradedComponent(resp) ==
    \E i \in DOMAIN resp.components : resp.components[i] # "OPERATIONAL"

\* C14: in every call of generate_scene_image the POST is sent only after
\* check_api_status and then check_components_status returned true in that
\* call; a status fetch that raises or reports a non-operational state makes
\* the check return false, and then no POST is sent for the scene and, if it
\* was the API status check, the components check is not made; every scene
\* has its own checks.
C14_PostOnlyAfterBothChecks ==
    /\ \A resp \in SummaryResponses :
         (resp.raises \/ resp.status # "UP" \/ HasMajorOutage(resp))
             => ~check_api_status(resp)
    /\ \A resp \in ComponentsResponses :
         (resp.raises \/ HasDegradedComponent(resp))
             => ~check_components_status(resp)
    /\ \A k \in 1..Len(attempts) :
         LET cs == ChecksOf(k) IN
         /\ Len(cs) \in {1, 2}
         /\ cs[1].check = "api"
         /\ Len(cs) = 2 => (cs[1].ok /\ cs[2].check = "components")
         /\ (\E m \in 1..Len(posts) : posts[m].scene = k) =>
              (Len(cs) = 2 /\ cs[1].ok /\ cs[2].ok)
         /\ (\E n \in 1..Len(cs) : ~cs[n].ok) =>
              (Len(outcome) >= k /\ outcome[k] = MSG_UNAVAILABLE)
    /\ \A n \in 1..Len(checks) : checks[n].scene \in 1..Len(attempts)

\* the components check failed for the first scene, and the second scene was
\* checked again, posted and generated
C14_Witness ==
    /\ pc = "done"
    /\ Len(scenes) = 2
    /\ Len(ChecksOf(1)) = 2
    /\ ~ChecksOf(1)[2].ok
    /\ \E m \in 1..Len(posts) : posts[m] = [scene |-> 2, response |-> "image"]
    /\ outcome[2] = "ok"

====
